---- MODULE Spec2Model ----
(***************************************************************************)
(* Book Alchemy: a Flask application over a SQLite store with two tables,  *)
(* author and book (src/data_models.py), and four request handlers         *)
(* (src/app.py): home (list/search), add_author, add_book, delete_book.    *)
(*                                                                         *)
(* Text is a sequence of one-character strings.  A calendar date is a day  *)
(* number.  A handler that reads the store and later commits is two steps  *)
(* (the query, then the commit), so that requests served by different      *)
(* workers interleave between the two, as the threaded server allows.      *)
(***************************************************************************)
EXTENDS Integers, Sequences, FiniteSets

\* ------------------------------------------------------------------ bounds

\* Days are 0..MaxDay; the clock never passes MaxDay.
MaxDay == 1
\* At most MaxAuthors author rows are ever inserted.
MaxAuthors == 2
\* Book ids never exceed MaxBooks.
MaxBooks == 2

Days == 0..MaxDay

\* The workers that serve requests concurrently.
Workers == {"w1", "w2"}

\* ------------------------------------------------------ request inputs

\* form["name"] of add_author
NameInputs == { <<" ">>, <<" ", "a">> }
\* form["title"] of add_book
TitleInputs == { <<" ">>, <<"a">> }
\* form["isbn"] of add_book
IsbnInputs == { <<"1">>, <<"1", " ">>, <<"2">> }
\* the query parameter q of home; <<>> is an absent or empty q
QueryInputs == { <<>>, <<"A">>, <<"b">>, <<"_">> }

\* A date field as submitted: a well-formed YYYY-MM-DD text naming a day, a
\* text that is not a date, or the empty text (an empty birth_date fails to
\* parse like any other text that is not a date).
Iso(d) == [text |-> "iso", day |-> d]
Malformed == [text |-> "malformed", day |-> 0]
Empty == [text |-> "empty", day |-> 0]
DateInputs == {Iso(d) : d \in Days} \cup {Malformed}

\* form["author_id"] of add_book: decimal digits of a number, or other text.
Digits(n) == [digits |-> TRUE, value |-> n]
NotDigits == [digits |-> FALSE, value |-> 0]
AuthorIdInputs == {Digits(1), Digits(2), NotDigits}

\* <int:book_id> of delete_book
BookIdInputs == 1..(MaxBooks + 1)

\* -------------------------------------------------------------- state

VARIABLES
    authors,        \* the author table: a set of rows
    books,          \* the book table: a set of rows
    today,          \* date.today()
    session,        \* per worker: the pending unit of work of its request
    last            \* the most recent step: its request and its response

vars == <<authors, books, today, session, last>>

Idle == [pc |-> "idle"]

\* ------------------------------------------------------- text helpers

\* str.strip(): surrounding whitespace removed
IsSpace(c) == c = " "

RECURSIVE LStrip(_)
LStrip(s) == IF s # <<>> /\ IsSpace(Head(s)) THEN LStrip(Tail(s)) ELSE s

RECURSIVE RStrip(_)
RStrip(s) ==
    IF s # <<>> /\ IsSpace(s[Len(s)]) THEN RStrip(SubSeq(s, 1, Len(s) - 1)) ELSE s

strip(s) == RStrip(LStrip(s))

\* lower() of the ASCII letters in use
LowerChar(c) == IF c = "A" THEN "a" ELSE IF c = "B" THEN "b" ELSE c

lower(s) == [i \in 1..Len(s) |-> LowerChar(s[i])]

\* SQL LIKE: % matches any run of characters, _ any one character.
RECURSIVE like(_, _)
like(s, pat) ==
    IF pat = <<>> THEN s = <<>>
    ELSE IF Head(pat) = "%"
         THEN like(s, Tail(pat)) \/ (s # <<>> /\ like(Tail(s), pat))
         ELSE /\ s # <<>>
              /\ (Head(pat) = "_" \/ Head(pat) = Head(s))
              /\ like(Tail(s), Tail(pat))

\* column.ilike(pattern): lower(column) LIKE lower(pattern)
ilike(col, pat) == like(lower(col), lower(pat))

\* ------------------------------------------------------- the store

Ids(rows) == {r.id : r \in rows}

Max(S) == CHOOSE m \in S : \A x \in S : x <= m

\* An INTEGER PRIMARY KEY column left out of the INSERT: one more than the
\* largest id in the table, 1 in an empty table.
NewId(rows) == IF rows = {} THEN 1 ELSE Max(Ids(rows)) + 1

\* ------------------------------------------------------- responses

\* A step that answers its request with a redirect, flashing msg ("" for none).
Redirect(op, step, form, to, msg) ==
    [op |-> op, step |-> step, form |-> form, status |-> 302, location |-> to,
     flash |-> msg, result |-> {}]

\* A step that answers its request with a rendered page listing rows.
Rendered(op, form, rows) ==
    [op |-> op, step |-> "request", form |-> form, status |-> 200,
     location |-> "", flash |-> "", result |-> rows]

\* A step that answers nothing: the request goes on to its commit.
NoResponse(op, form) ==
    [op |-> op, step |-> "request", form |-> form, status |-> 0,
     location |-> "", flash |-> "", result |-> {}]

\* The form of a step that is no request.
NoForm == [none |-> TRUE]

\* --------------------------------------------------------- helpers

\* is_in_future with an off-by-one: tomorrow does not count as the future.
is_in_future_late(d) == d > today + 1

\* date.today() < d
is_in_future(d) == d > today

\* -------------------------------------------------------------- Init

Init ==
    /\ authors = {}
    /\ books = {}
    /\ today = 0
    /\ session = [w \in Workers |-> Idle]
    /\ last = NoResponse("start", NoForm)

\* The calendar day changes.
Tick ==
    /\ today < MaxDay
    /\ today' = today + 1
    /\ last' = NoResponse("tick", NoForm)
    /\ UNCHANGED <<authors, books, session>>

\* ---------------------------------------------------------- home

\* GET /?q=...: the books whose title is LIKE %q%, or all books.
search(q) ==
    IF q # <<>>
    THEN {b \in books : ilike(b.title, <<"%">> \o q \o <<"%">>)}
    ELSE books

home(q) ==
    /\ last' = Rendered("home", [q |-> q], Ids(search(q)))
    /\ UNCHANGED <<authors, books, today, session>>

\* ---------------------------------------------------- add_author

Pending(pc) == Cardinality({w \in Workers : session[w].pc = pc})

\* Author.query.filter_by(name=name, birth_date=birth_date).first()
existing_author(name, birth_date) ==
    \E a \in authors : a.name = name /\ a.birth_date = birth_date

\* add_author_flash without the comparison of date_of_death and birth_date.
add_author_flash_unordered(form) ==
    LET name == strip(form.name)
        birth_date == form.birth_date
        date_of_death == form.date_of_death
    IN  IF birth_date.text # "iso" \/ date_of_death.text = "malformed"
        THEN "Error adding author"
        ELSE IF is_in_future(birth_date.day)
        THEN "Birth date cannot be in the future."
        ELSE IF date_of_death.text = "iso" /\ is_in_future(date_of_death.day)
        THEN "Death date cannot be in the future."
        ELSE IF existing_author(name, birth_date.day)
        THEN "Author already exists."
        ELSE ""

\* What the validation of POST /add_author flashes; "" when the input passes.
add_author_flash(form) ==
    LET name == strip(form.name)
        birth_date == form.birth_date
        date_of_death == form.date_of_death
    IN  IF birth_date.text # "iso" \/ date_of_death.text = "malformed"
        THEN "Error adding author"
        ELSE IF is_in_future(birth_date.day)
        THEN "Birth date cannot be in the future."
        ELSE IF date_of_death.text = "iso" /\ is_in_future(date_of_death.day)
        THEN "Death date cannot be in the future."
        ELSE IF date_of_death.text = "iso" /\ date_of_death.day < birth_date.day
        THEN "Death date cannot be before birth date."
        ELSE IF existing_author(name, birth_date.day)
        THEN "Author already exists."
        ELSE ""

\* POST /add_author up to db.session.add(author): parse, validate, look up.
add_author(w, form) ==
    /\ session[w] = Idle
    /\ LET msg == add_author_flash(form)
       IN  IF msg # ""
           THEN /\ last' = Redirect("add_author", "request", form, "add_author", msg)
                /\ UNCHANGED session
           ELSE /\ Cardinality(authors) + Pending("add_author") < MaxAuthors
                /\ session' = [session EXCEPT ![w] =
                       [pc |-> "add_author",
                        name |-> strip(form.name),
                        birth_date |-> form.birth_date.day,
                        date_of_death |->
                            IF form.date_of_death.text = "iso"
                            THEN {form.date_of_death.day} ELSE {}]]
                /\ last' = NoResponse("add_author", form)
    /\ UNCHANGED <<authors, books, today>>

\* The row db.session.commit() inserts into author.
author_row(s) ==
    [id |-> NewId(authors), name |-> s.name, birth_date |-> s.birth_date,
     date_of_death |-> s.date_of_death]

\* db.session.commit() of add_author
add_author_commit(w) ==
    /\ session[w].pc = "add_author"
    /\ LET row == author_row(session[w])
       IN  /\ authors' = authors \cup {row}
           /\ last' = Redirect("add_author", "commit", row, "home", "")
    /\ session' = [session EXCEPT ![w] = Idle]
    /\ UNCHANGED <<books, today>>

\* ------------------------------------------------------ add_book

\* Book.query.filter_by(isbn=isbn).first()
existing_book(isbn) == \E b \in books : b.isbn = isbn

\* add_book_flash looking the isbn up as submitted, not trimmed.
add_book_flash_untrimmed(form) ==
    IF ~form.author_id.digits
    THEN "Error adding book"
    ELSE IF existing_book(form.isbn)
    THEN "Book with this ISBN already exists."
    ELSE ""

\* What POST /add_book flashes before the insert; "" when the input passes.
add_book_flash(form) ==
    IF ~form.author_id.digits
    THEN "Error adding book"
    ELSE IF existing_book(strip(form.isbn))
    THEN "Book with this ISBN already exists."
    ELSE ""

\* POST /add_book up to db.session.add(book): parse, look up the isbn.
add_book(w, form) ==
    /\ session[w] = Idle
    /\ LET msg == add_book_flash(form)
       IN  IF msg # ""
           THEN /\ last' = Redirect("add_book", "request", form, "add_book", msg)
                /\ UNCHANGED session
           ELSE /\ NewId(books) + Pending("add_book") <= MaxBooks
                /\ session' = [session EXCEPT ![w] =
                       [pc |-> "add_book",
                        title |-> strip(form.title),
                        isbn |-> strip(form.isbn),
                        author_id |-> form.author_id.value]]
                /\ last' = NoResponse("add_book", form)
    /\ UNCHANGED <<authors, books, today>>

\* The row db.session.commit() inserts into book.
book_row(s) ==
    [id |-> NewId(books), title |-> s.title, isbn |-> s.isbn,
     author_id |-> s.author_id]

\* The constraints the store checks on an inserted book row: the foreign key
\* book.author_id -> author.id, when the connection enforces foreign keys.
book_constraints(row, foreign_keys) ==
    foreign_keys => row.author_id \in Ids(authors)

\* db.session.commit() of add_book.  Whether the SQLite connection enforces
\* foreign keys is the library's setting (PRAGMA foreign_keys), which the
\* application never makes: either may be in force.
add_book_commit(w) ==
    /\ session[w].pc = "add_book"
    /\ \E foreign_keys \in BOOLEAN :
       LET row == book_row(session[w])
       IN  IF book_constraints(row, foreign_keys)
           THEN /\ books' = books \cup {row}
                /\ last' = Redirect("add_book", "commit", row, "home", "")
           ELSE /\ books' = books
                /\ last' = Redirect("add_book", "commit", row, "add_book",
                                    "Error adding book")
    /\ session' = [session EXCEPT ![w] = Idle]
    /\ UNCHANGED <<authors, today>>

\* --------------------------------------------------- delete_book

\* POST /book/<book_id>/delete up to db.session.delete(book).  get_or_404
\* raises NotFound, an Exception, which the handler's except clause catches:
\* it flashes the error and the handler goes on to its redirect.
delete_book(w, book_id) ==
    /\ session[w] = Idle
    /\ IF book_id \in Ids(books)
       THEN /\ session' = [session EXCEPT ![w] =
                   [pc |-> "delete_book", book_id |-> book_id]]
            /\ last' = NoResponse("delete_book", [book_id |-> book_id])
       ELSE /\ last' = Redirect("delete_book", "request", [book_id |-> book_id],
                                "home", "Error deleting book: 404 Not Found")
            /\ UNCHANGED session
    /\ UNCHANGED <<authors, books, today>>

\* deleted_rows taking the author's other books along.
deleted_rows_of_author(book_id) ==
    {b \in books : \E d \in books : d.id = book_id /\ d.author_id = b.author_id}

\* The rows DELETE FROM book WHERE book.id = book_id removes.
deleted_rows(book_id) == {b \in books : b.id = book_id}

\* db.session.commit() of delete_book.  A row that is gone by now matches
\* nothing; the session only warns about the row count.
delete_book_commit(w) ==
    /\ session[w].pc = "delete_book"
    /\ books' = books \ deleted_rows(session[w].book_id)
    /\ last' = [Redirect("delete_book", "commit",
                         [book_id |-> session[w].book_id], "home", "")
                EXCEPT !.result = deleted_rows(session[w].book_id)]
    /\ session' = [session EXCEPT ![w] = Idle]
    /\ UNCHANGED <<authors, today>>

\* -------------------------------------------------------------- Next

AuthorForms ==
    [name : NameInputs, birth_date : DateInputs,
     date_of_death : DateInputs \cup {Empty}]

\* The author forms of the whole-system specification: one author, born on
\* day 0 and alive, or a birth date that does not parse.
PlainAuthorForms ==
    [name : {<<" ", "a">>}, birth_date : {Iso(0), Malformed},
     date_of_death : {Empty}]

BookForms ==
    [title : TitleInputs, isbn : IsbnInputs, author_id : AuthorIdInputs]

Next ==
    \/ Tick
    \/ \E q \in QueryInputs : home(q)
    \/ \E w \in Workers : \E form \in PlainAuthorForms : add_author(w, form)
    \/ \E w \in Workers : add_author_commit(w)
    \/ \E w \in Workers : \E form \in BookForms : add_book(w, form)
    \/ \E w \in Workers : add_book_commit(w)
    \/ \E w \in Workers : \E book_id \in BookIdInputs : delete_book(w, book_id)
    \/ \E w \in Workers : delete_book_commit(w)

\* The whole application: the four handlers and the calendar.
Spec == Init /\ [][Next]_vars

\* The four handlers within one day.  Only add_author's validation reads the
\* date, and PlainAuthorForms pass or fail it alike on every day.
NextCatalog ==
    \/ \E q \in QueryInputs : home(q)
    \/ \E w \in Workers : \E form \in PlainAuthorForms : add_author(w, form)
    \/ \E w \in Workers : add_author_commit(w)
    \/ \E w \in Workers : \E form \in BookForms : add_book(w, form)
    \/ \E w \in Workers : add_book_commit(w)
    \/ \E w \in Workers : \E book_id \in BookIdInputs : delete_book(w, book_id)
    \/ \E w \in Workers : delete_book_commit(w)

SpecCatalog == Init /\ [][NextCatalog]_vars

\* The author handlers alone, over every author form.  The other handlers
\* write neither the author table nor the clock.
NextAuthors ==
    \/ Tick
    \/ \E w \in Workers : \E form \in AuthorForms : add_author(w, form)
    \/ \E w \in Workers : add_author_commit(w)

SpecAuthors == Init /\ [][NextAuthors]_vars

\* ------------------------------------------------------------ claims

\* Whether text s contains text q as a contiguous run, letter case ignored.
Contains(s, q) ==
    \E i \in 0..(Len(s) - Len(q)) :
        SubSeq(lower(s), i + 1, i + Len(q)) = lower(q)

\* C1: at most one Author exists per (name, birth_date) pair, however the
\* Create Author requests interleave.
C1_OneAuthorPerNameAndBirthDate ==
    \A a, b \in authors :
        (a.name = b.name /\ a.birth_date = b.birth_date) => a = b

\* C2: no two stored Books share an isbn, however the Create Book requests
\* interleave.
C2_UniqueIsbn ==
    \A a, b \in books : a.isbn = b.isbn => a = b

\* C3: every stored Book's author_id is the id of a stored Author.
C3_BookReferencesAuthor ==
    \A b \in books : b.author_id \in Ids(authors)

\* C4: Delete Book on an id that matches no stored Book answers "not found"
\* (status 404) and leaves the stored Authors and Books unchanged.
C4_DeleteMissingIsNotFound ==
    [][( /\ last'.op = "delete_book" /\ last'.step = "request"
         /\ last'.form.book_id \notin Ids(books) )
          => (last'.status = 404 /\ authors' = authors /\ books' = books)]_vars

\* C5: the commit of Delete Book on the id of a stored Book removes exactly
\* the Book with that id; every other Book and every Author stays as it was.
\* The request step before the commit changes no stored record.
C5_DeleteRemovesExactlyThatBook ==
    [][last'.op = "delete_book" =>
        \A w \in Workers :
          /\ (session[w].pc = "delete_book" /\ session[w].book_id \in Ids(books)
                 /\ delete_book_commit(w))
                => /\ \E b \in books :
                          b.id = session[w].book_id /\ books' = books \ {b}
                   /\ authors' = authors
          /\ \A book_id \in BookIdInputs :
                delete_book(w, book_id) => (books' = books /\ authors' = authors)
      ]_vars

\* C5 witness: a Delete Book commit has just removed a Book while another
\* Book of the same Author, and that Author, are stored.
C5_Witness ==
    /\ last.op = "delete_book" /\ last.step = "commit"
    /\ \E d \in last.result : \E b \in books :
          b.author_id = d.author_id /\ b.author_id \in Ids(authors)

\* C6 as claimed: a Create Book request whose trimmed isbn is that of a stored
\* Book flashes the duplicate-isbn error and changes no stored record and
\* starts no insert, whatever its other fields are.
C6_DuplicateIsbnRejected ==
    [][( /\ last'.op = "add_book" /\ last'.step = "request"
         /\ \E b \in books : b.isbn = strip(last'.form.isbn) )
          => /\ last'.flash = "Book with this ISBN already exists."
             /\ books' = books /\ authors' = authors /\ session' = session
      ]_vars

\* C6 amended: a Create Book request whose author_id parses as an integer and
\* whose trimmed isbn is that of a stored Book flashes the duplicate-isbn
\* error, changes no stored record and starts no insert; when the author_id
\* does not parse, the request fails with the generic error instead, and
\* also changes nothing.
C6_DuplicateIsbnRejectedWhenAuthorIdParses ==
    [][( /\ last'.op = "add_book" /\ last'.step = "request"
         /\ \E b \in books : b.isbn = strip(last'.form.isbn) )
          => /\ last'.flash = IF last'.form.author_id.digits
                              THEN "Book with this ISBN already exists."
                              ELSE "Error adding book"
             /\ last'.location = "add_book"
             /\ books' = books /\ authors' = authors /\ session' = session
      ]_vars

\* C6 witness: a Create Book request whose isbn differs from a stored Book's
\* only by surrounding whitespace has just been rejected as a duplicate.
C6_Witness ==
    /\ last.op = "add_book" /\ last.step = "request"
    /\ last.flash = "Book with this ISBN already exists."
    /\ \E b \in books :
          b.isbn = strip(last.form.isbn) /\ b.isbn # last.form.isbn

\* C7: every Author row is inserted with a birth_date not later than the day
\* of the insert and, when it has one, a date_of_death not later than that
\* day and not earlier than its birth_date.
C7_AuthorDatesAtCreation ==
    [][\A a \in authors' \ authors :
          /\ a.birth_date <= today
          /\ \A d \in a.date_of_death : d <= today /\ a.birth_date <= d
      ]_vars

\* C7 witness: an Author with a date_of_death has just been inserted, on a
\* day later than day 0.
C7_Witness ==
    /\ last.op = "add_author" /\ last.step = "commit"
    /\ today > 0
    /\ last.form \in authors /\ last.form.date_of_death # {}

\* C8 as claimed: a Create Author request whose date_of_death is earlier than
\* its birth_date flashes the death-before-birth error, whatever its other
\* fields are.
C8_DeathBeforeBirthRejected ==
    [][( /\ last'.op = "add_author" /\ last'.step = "request"
         /\ last'.form.birth_date.text = "iso"
         /\ last'.form.date_of_death.text = "iso"
         /\ last'.form.date_of_death.day < last'.form.birth_date.day )
          => last'.flash = "Death date cannot be before birth date."
      ]_vars

\* C8 amended: a Create Author request whose date_of_death is earlier than
\* its birth_date flashes the death-before-birth error when its birth_date
\* is not in the future, and the future-birth-date error when it is; either
\* way it starts no insert and changes no stored record.
C8_DeathBeforeBirthRejectedUnlessBirthInFuture ==
    [][( /\ last'.op = "add_author" /\ last'.step = "request"
         /\ last'.form.birth_date.text = "iso"
         /\ last'.form.date_of_death.text = "iso"
         /\ last'.form.date_of_death.day < last'.form.birth_date.day )
          => /\ last'.flash = IF last'.form.birth_date.day > today
                              THEN "Birth date cannot be in the future."
                              ELSE "Death date cannot be before birth date."
             /\ last'.location = "add_author"
             /\ authors' = authors /\ session' = session
      ]_vars

\* C8 witness: a Create Author request has just been rejected with the
\* death-before-birth error.
C8_Witness ==
    /\ last.op = "add_author" /\ last.step = "request"
    /\ last.flash = "Death date cannot be before birth date."
    /\ last.form.date_of_death.day < last.form.birth_date.day

\* C9: List/Search with search text q lists exactly the Books whose title
\* contains q literally, letter case ignored; with no q it lists all Books.
C9_SearchIsLiteralSubstring ==
    last.op = "home" =>
        last.result = Ids(IF last.form.q = <<>> THEN books
                          ELSE {b \in books : Contains(b.title, last.form.q)})

\* C10: every stored Author has a non-empty name and every stored Book a
\* non-empty title.
C10_NamesAndTitlesNonEmpty ==
    /\ \A a \in authors : a.name # <<>>
    /\ \A b \in books : b.title # <<>>

====
